---- MODULE Spec2Model ----
(***************************************************************************)
(* A model of the wiki_parser service: the recursive crawler               *)
(* WikipediaParser.parse_article (app/services/parser.py) and the /parse   *)
(* handler that drives it (app/main.py).                                   *)
(*                                                                         *)
(* Strings are modelled by what the code does with them.  An href and the  *)
(* path of a URL are the sequence of their '/'-separated segments          *)
(* (str.split('/')), so "/wiki/A" is <<"", "wiki", "A">>.  A text is a     *)
(* sequence of characters.  An Optional value is a sequence of length 0    *)
(* (None) or 1.                                                            *)
(***************************************************************************)
EXTENDS Integers, Sequences, FiniteSets, TLC

VARIABLES
    caller,        \* who started the crawl: "api" (/parse) or "lib" (parse_article called directly)
    pc,            \* position of the caller: "idle", "crawling", "crawled", "done"
    crawl,         \* the level-0 parse_article call: "none", "running", "returned", "raised"
    exc,           \* the exception that ended the run, or "none"
    response,      \* the HTTP response of /parse, or "none"
    max_level,     \* parse_article's max_level argument
    visited_urls,  \* WikipediaParser.visited_urls
    stack,         \* the activation records of the nested parse_article calls
    article_data,  \* what the level-0 parse_article call returned (Optional)
    articles,      \* the rows of table articles
    summaries,     \* the rows of table summaries
    fetchlog,      \* history: per URL, the responses its fetches of this crawl got, in order
    crawled_before,\* history: an earlier request ran a crawl, whose parser claimed the seed
    text,          \* a text handed to the footnote strip
    stripped,      \* the strip of text (Optional)
    restripped,    \* the strip of the stripped text (Optional)
    href,          \* an href handed to the link filter
    wiki_link,     \* the link filter's answer for href (Optional of Optional URL)
    req,           \* per concurrent /parse request: its position, crawl result and response
    mistral        \* what the Mistral API answers a chat completion request with

crawlVars == <<caller, pc, crawl, exc, response, max_level, visited_urls, stack,
               article_data, articles, summaries, fetchlog, crawled_before>>
pureVars == <<text, stripped, restripped, href, wiki_link>>
reqVars == <<req, mistral>>
\* what only the crawl and its one caller write
crawlOnlyVars == <<caller, pc, crawl, exc, response, max_level, visited_urls, stack,
                   article_data, fetchlog, crawled_before>>
vars == <<caller, pc, crawl, exc, response, max_level, visited_urls, stack,
          article_data, articles, summaries, fetchlog, crawled_before,
          text, stripped, restripped, href, wiki_link, req, mistral>>

None == << >>
Some(v) == <<v>>

Min(a, b) == IF a < b THEN a ELSE b

(***************************************************************************)
(* Bounds of the model and constants of the program.                       *)
(***************************************************************************)
\* largest max_level a direct call of parse_article is given
MaxLevelBound == 2
\* longest text handed to the footnote strip
MaxTextLen == 6
\* most segments of an href handed to the link filter
MaxHrefLen == 4
\* parse_article's default max_level, which /parse uses
DefaultMaxLevel == 5
\* list(wiki_links)[:3]
FanoutLimit == 3

base_url == "https://ru.wikipedia.org"

(***************************************************************************)
(* re.sub(r'\[\d+\]', '', content): one left-to-right pass that drops      *)
(* every non-overlapping match and never rescans what it has produced.     *)
(***************************************************************************)
Digits == {"1", "2"}

\* the first index >= i of s that holds no digit (Len(s)+1 if none)
RECURSIVE DigitsEnd(_, _)
DigitsEnd(s, i) ==
    IF i > Len(s) \/ s[i] \notin Digits THEN i ELSE DigitsEnd(s, i + 1)

\* the index of the ']' closing a match of \[\d+\] that starts at i, or 0
MatchEnd(s, i) ==
    IF s[i] # "[" THEN 0
    ELSE LET k == DigitsEnd(s, i + 1)
         IN IF k > i + 1 /\ k <= Len(s) /\ s[k] = "]" THEN k ELSE 0

RECURSIVE SubFrom(_, _)
SubFrom(s, i) ==
    IF i > Len(s) THEN << >>
    ELSE IF MatchEnd(s, i) # 0 THEN SubFrom(s, MatchEnd(s, i) + 1)
    ELSE <<s[i]>> \o SubFrom(s, i + 1)

strip_footnotes(s) == SubFrom(s, 1)

(***************************************************************************)
(* The link filter of parse_article and urllib.parse.urljoin.              *)
(***************************************************************************)
\* href.startswith("/wiki/")
StartsWithWiki(h) == Len(h) >= 3 /\ h[1] = "" /\ h[2] = "wiki"

\* ":" in href; the segments that hold a ':' are the namespaced ones
ColonSegments == {"Talk:A", "Category:B"}
HasColon(h) == \E i \in DOMAIN h : h[i] \in ColonSegments

\* urljoin's loop over the segments: '..' pops, '.' is skipped
RECURSIVE ResolveDots(_, _, _)
ResolveDots(segs, i, acc) ==
    IF i > Len(segs) THEN acc
    ELSE IF segs[i] = ".."
         THEN ResolveDots(segs, i + 1,
                  IF acc = << >> THEN acc ELSE SubSeq(acc, 1, Len(acc) - 1))
    ELSE IF segs[i] = "." THEN ResolveDots(segs, i + 1, acc)
    ELSE ResolveDots(segs, i + 1, Append(acc, segs[i]))

\* urljoin(base, href) for a base with an empty path and an href that is a
\* path starting with '/': the base's origin and the href's path with its
\* dot segments resolved
urljoin(base, h) ==
    LET resolved == ResolveDots(h, 1, << >>)
        closed == IF h[Len(h)] \in {".", ".."} THEN Append(resolved, "") ELSE resolved
        joined == IF closed \in {<< >>, <<"">>} THEN <<"", "">> ELSE closed
        path == IF joined[1] # "" THEN <<"">> \o joined ELSE joined
    IN [origin |-> base, path |-> path]

\* is_wiki_link, had the ':' test been left out
is_wiki_link_any_namespace(h) == StartsWithWiki(h)

is_wiki_link(h) == StartsWithWiki(h) /\ ~HasColon(h)

\* lines 87-90: what one anchor's href adds to wiki_links, None if nothing
link_filter(h) == IF is_wiki_link(h) THEN Some(urljoin(base_url, h)) ELSE None

\* lines 84-91: the loop over the anchors fills a set
wiki_links(links) ==
    {link_filter(links[i])[1] : i \in {j \in DOMAIN links : link_filter(links[j]) # None}}

(***************************************************************************)
(* The web the crawler reads: what a GET of a URL can answer.              *)
(***************************************************************************)
Wiki(name) == <<"", "wiki", name>>
Url(name) == [origin |-> base_url, path |-> Wiki(name)]
Seed == Url("S")

\* a parsed page: the text of h1#firstHeading if there is one, whether
\* div#mw-content-text is there, the texts of the div's <p> elements and the
\* hrefs of its anchors
Page(t, d, ps, ls) == [title |-> t, content_div |-> d, paragraphs |-> ps, links |-> ls]

OrderPage == Page(Some("Order"), TRUE, <<<<"a", "[", "1", "]">>, <<" ">>, <<"b">>>>,
                  <<Wiki("B"), Wiki("A"), Wiki("B")>>)
WidePage == Page(Some("Wide"), TRUE, << >>,
                 <<Wiki("A"), Wiki("B"), Wiki("C"), Wiki("D")>>)
MixedPage == Page(Some("Mixed"), TRUE, <<<<"[", "[", "1", "]", "2", "]">>>>,
                  <<Wiki("S"), Wiki("Talk:A"), <<"", "", "other.site", "wiki", "C">>,
                    <<"", "w", "index.php">>, Wiki("C")>>)
LeafPage == Page(Some("Leaf"), TRUE, << >>, << >>)
NoTitlePage == Page(None, TRUE, << >>, <<Wiki("A")>>)
NoContentPage == Page(Some("NoContent"), FALSE, << >>, << >>)

Pages == {OrderPage, WidePage, MixedPage, LeafPage, NoTitlePage, NoContentPage}

\* what session.get can do: answer 200 with a page, answer another status, or
\* fail (a connection error, a timeout)
Ok(p) == [kind |-> "200", page |-> p]
NotFound == [kind |-> "404", page |-> LeafPage]
Failed == [kind |-> "error", page |-> LeafPage]

\* the answers a URL of the modelled web can give: the seed any, another URL
\* any but the page of four links
Responses(u) ==
    IF u = Seed
    THEN {NotFound, Failed} \cup {Ok(p) : p \in Pages}
    ELSE {NotFound, Failed} \cup {Ok(p) : p \in Pages \ {WidePage}}

Urls == {Seed} \cup UNION {wiki_links(p.links) : p \in Pages}

(***************************************************************************)
(* The article store as a request finds it.                                *)
(***************************************************************************)
Row(id, url, parent) == [id |-> id, url |-> url, parent_id |-> parent]

InitialStores == {{}, {Row(1, Seed, None)}}

(***************************************************************************)
(* WikipediaParser.fetch_page: the page text on status 200, None on any    *)
(* other status and on any exception; it raises nothing.                   *)
(***************************************************************************)
\* fetch_page, had it returned the body whatever the status
fetch_page_any_status(r) == [raised |-> "none", html |-> Some(r.page)]

fetch_page(r) ==
    [raised |-> "none", html |-> IF r.kind = "200" THEN Some(r.page) ELSE None]

(***************************************************************************)
(* parse_article, lines 56-78: the article built from a fetched page.      *)
(***************************************************************************)
Whitespace == {" ", "\n"}

\* p.text.strip() is truthy
NonBlank(p) == \E i \in DOMAIN p : p[i] \notin Whitespace

\* "\n".join(ps)
RECURSIVE JoinLines(_)
JoinLines(ps) ==
    IF ps = << >> THEN << >>
    ELSE IF Len(ps) = 1 THEN ps[1]
    ELSE ps[1] \o <<"\n">> \o JoinLines(Tail(ps))

page_content(page) ==
    strip_footnotes(JoinLines(SelectSeq(page.paragraphs, NonBlank)))

\* soup.find(...) returned None and an attribute of it is read
raises_on(page) == page.title = None \/ ~page.content_div

\* new_article, had it counted the levels from 1
new_article_level_from_one(url, level, page) ==
    [url |-> url, title |-> page.title[1], content |-> page_content(page),
     level |-> level + 1, children |-> << >>]

new_article(url, level, page) ==
    [url |-> url, title |-> page.title[1], content |-> page_content(page),
     level |-> level, children |-> << >>]

(***************************************************************************)
(* list(wiki_links)[:3]: a set of str iterates in the order of the hashes, *)
(* which differs from process to process, so any order can come out.       *)
(***************************************************************************)
Injective(q) == \A i, j \in DOMAIN q : i # j => q[i] # q[j]

list_of_set(S) ==
    {q \in [1..Cardinality(S) -> S] : Injective(q)}

\* FirstN, had the slice been left out
FirstN_all(q, n) == q

FirstN(q, n) == SubSeq(q, 1, Min(n, Len(q)))

(***************************************************************************)
(* The activation records of parse_article.                                *)
(***************************************************************************)
Frame(url, level) ==
    [url |-> url, level |-> level, at |-> "enter", html |-> None,
     data |-> None, todo |-> << >>, i |-> 1]

Top == stack[Len(stack)]

SetTop(f) == [stack EXCEPT ![Len(stack)] = f]

\* pruned, had the check of visited_urls been left out
pruned_ignores_visited(f) == f.level > max_level

\* lines 48-49: the call returns None without claiming the URL
pruned(f) == f.level > max_level \/ f.url \in visited_urls

\* claimed, had the add been left out
claimed_nothing(url) == visited_urls

\* line 51: self.visited_urls.add(url)
claimed(url) == visited_urls \cup {url}

\* line 81: the links of the page are followed
expands(f) == f.level < max_level

\* lines 96-97: the caller's loop keeps a result that is truthy
AppendChild(parent, v) ==
    IF v # None
    THEN [parent EXCEPT !.data = Some([@[1] EXCEPT !.children = Append(@, v[1])]),
                        !.i = @ + 1]
    ELSE [parent EXCEPT !.i = @ + 1]

\* the innermost call returns v: to the loop of the call above it, or to
\* the caller of the level-0 call
Return(v) ==
    IF Len(stack) = 1
    THEN /\ stack' = << >>
         /\ article_data' = v
         /\ crawl' = "returned"
         /\ pc' = IF caller = "lib" THEN "done" ELSE "crawled"
    ELSE /\ stack' = [SubSeq(stack, 1, Len(stack) - 1) EXCEPT
                         ![Len(stack) - 1] = AppendChild(@, v)]
         /\ UNCHANGED <<article_data, crawl, pc>>

\* an exception leaves every parse_article call (none catches it) and the
\* /parse handler, which answers 500
Raise(e) ==
    /\ stack' = << >>
    /\ exc' = e
    /\ crawl' = "raised"
    /\ pc' = "done"
    /\ response' = IF caller = "api" THEN "500" ELSE response
    /\ UNCHANGED article_data

(***************************************************************************)
(* What /parse calls besides the crawl.                                    *)
(***************************************************************************)
\* a parser several requests share, its visited set never emptied
WikipediaParser_shared == visited_urls

\* WikipediaParser(): the visited_urls of a new parser
WikipediaParser == {}

\* the lookup, had it found nothing
get_article_by_url_blind(url, store) == None

\* DatabaseService.get_article_by_url: the first row of that url, or None
get_article_by_url(url, store) ==
    IF \E row \in store : row.url = url
    THEN Some(CHOOSE row \in store : row.url = url)
    ELSE None

\* the id a new row of the store is given
next_id(store) == Cardinality(store) + 1

\* save_article, had ArticleCreate been imported: the root is inserted and
\* committed, then inserting a child fails
save_article_root_committed(article, store) ==
    [raised |-> "IntegrityError",
     store |-> store \cup {Row(next_id(store), article.url, None)}]

\* save_article (main.py 78-95) evaluates ArticleCreate, a name main.py never
\* imports (line 13 imports Article and Summary only): the call raises
\* NameError before create_article is reached, and the store stays as it was
save_article(article, store) == [raised |-> "NameError", store |-> store]

\* the concurrent /parse requests, and one that has not begun
Clients == {1, 2}
NoRequest ==
    [pc |-> "idle", launched |-> FALSE, article_data |-> None, response |-> "none"]

(***************************************************************************)
(* The initial state: no request yet.                                      *)
(***************************************************************************)
Init ==
    /\ caller = "none"
    /\ pc = "idle"
    /\ crawl = "none"
    /\ exc = "none"
    /\ response = "none"
    /\ max_level = DefaultMaxLevel
    /\ visited_urls = {}
    /\ stack = << >>
    /\ article_data = None
    /\ articles \in InitialStores
    /\ summaries = {}
    /\ fetchlog = [u \in Urls |-> << >>]
    /\ crawled_before = FALSE
    /\ text = << >>
    /\ stripped = None
    /\ restripped = None
    /\ href = << >>
    /\ wiki_link = None
    /\ req = [c \in Clients |-> NoRequest]
    /\ mistral = "200"

(***************************************************************************)
(* The callers of the crawl.                                               *)
(***************************************************************************)
\* main.py 59-66: the seed is already stored
ApiExists ==
    /\ pc = "idle"
    /\ get_article_by_url(Seed, articles) # None
    /\ caller' = "api"
    /\ response' = "400 Article already exists in database"
    /\ pc' = "done"
    /\ UNCHANGED <<crawl, exc, max_level, visited_urls, stack, article_data,
                   articles, summaries, fetchlog>>
    /\ UNCHANGED <<crawled_before, pureVars, reqVars>>

\* main.py 59-71: a new parser, and parse_article(url) with its defaults
ApiStart ==
    /\ pc = "idle"
    /\ get_article_by_url(Seed, articles) = None
    /\ caller' = "api"
    /\ visited_urls' = WikipediaParser
    /\ max_level' = DefaultMaxLevel
    /\ stack' = <<Frame(Seed, 0)>>
    /\ crawl' = "running"
    /\ pc' = "crawling"
    /\ UNCHANGED <<exc, response, article_data, articles, summaries, fetchlog>>
    /\ UNCHANGED <<crawled_before, pureVars, reqVars>>

\* parse_article(url, 0, m) called on a new parser
LibStart ==
    /\ pc = "idle"
    /\ \E m \in 0..MaxLevelBound :
          max_level' = m
    /\ caller' = "lib"
    /\ visited_urls' = WikipediaParser
    /\ stack' = <<Frame(Seed, 0)>>
    /\ crawl' = "running"
    /\ pc' = "crawling"
    /\ UNCHANGED <<exc, response, article_data, articles, summaries, fetchlog>>
    /\ UNCHANGED <<crawled_before, pureVars, reqVars>>

\* main.py 72-76: the crawl returned None
ApiNoResult ==
    /\ pc = "crawled"
    /\ article_data = None
    /\ response' = "400 Failed to parse article from Wikipedia"
    /\ pc' = "done"
    /\ UNCHANGED <<caller, crawl, exc, max_level, visited_urls, stack, article_data,
                   articles, summaries, fetchlog>>
    /\ UNCHANGED <<crawled_before, pureVars, reqVars>>

\* main.py 78-98: save_article(article_data) raises, which ends the request
\* with an internal server error
ApiSave ==
    /\ pc = "crawled"
    /\ article_data # None
    /\ LET saved == save_article(article_data[1], articles)
       IN /\ articles' = saved.store
          /\ exc' = saved.raised
    /\ response' = "500"
    /\ pc' = "done"
    /\ UNCHANGED <<caller, crawl, max_level, visited_urls, stack, article_data,
                   summaries, fetchlog>>
    /\ UNCHANGED <<crawled_before, pureVars, reqVars>>

(***************************************************************************)
(* The steps of parse_article.                                             *)
(***************************************************************************)
\* lines 48-49
EnterPruned ==
    /\ pc = "crawling"
    /\ Top.at = "enter"
    /\ pruned(Top)
    /\ Return(None)
    /\ UNCHANGED <<caller, exc, response, max_level, visited_urls, articles,
                   summaries, fetchlog>>
    /\ UNCHANGED <<crawled_before, pureVars, reqVars>>

\* line 51
EnterClaim ==
    /\ pc = "crawling"
    /\ Top.at = "enter"
    /\ ~pruned(Top)
    /\ visited_urls' = claimed(Top.url)
    /\ stack' = SetTop([Top EXCEPT !.at = "fetch"])
    /\ UNCHANGED <<caller, pc, crawl, exc, response, max_level, article_data,
                   articles, summaries, fetchlog>>
    /\ UNCHANGED <<crawled_before, pureVars, reqVars>>

\* lines 52-54: the page is fetched; a falsy answer ends the call with None
FetchPage ==
    /\ pc = "crawling"
    /\ Top.at = "fetch"
    /\ \E r \in Responses(Top.url) :
          LET got == fetch_page(r)
          IN /\ fetchlog' = [fetchlog EXCEPT ![Top.url] = Append(@, r)]
             /\ IF got.raised # "none"
                THEN Raise(got.raised)
                ELSE IF got.html = None
                THEN Return(None) /\ UNCHANGED <<exc, response>>
                ELSE /\ stack' = SetTop([Top EXCEPT !.at = "parse", !.html = got.html])
                     /\ UNCHANGED <<pc, crawl, exc, response, article_data>>
    /\ UNCHANGED <<caller, max_level, visited_urls, articles, summaries>>
    /\ UNCHANGED <<crawled_before, pureVars, reqVars>>

\* lines 56-65: soup.find returned None for the title or for the content div
ParseRaise ==
    /\ pc = "crawling"
    /\ Top.at = "parse"
    /\ raises_on(Top.html[1])
    /\ Raise("AttributeError")
    /\ UNCHANGED <<caller, max_level, visited_urls, articles, summaries, fetchlog>>
    /\ UNCHANGED <<crawled_before, pureVars, reqVars>>

\* lines 56-81 and 99: at max_level the article is returned without children
ParseLeaf ==
    /\ pc = "crawling"
    /\ Top.at = "parse"
    /\ ~raises_on(Top.html[1])
    /\ ~expands(Top)
    /\ Return(Some(new_article(Top.url, Top.level, Top.html[1])))
    /\ UNCHANGED <<caller, exc, response, max_level, visited_urls, articles,
                   summaries, fetchlog>>
    /\ UNCHANGED <<crawled_before, pureVars, reqVars>>

\* lines 56-94: the links are filtered into a set, of which the first three
\* in the set's order are kept
ParseLinks ==
    /\ pc = "crawling"
    /\ Top.at = "parse"
    /\ ~raises_on(Top.html[1])
    /\ expands(Top)
    /\ \E order \in list_of_set(wiki_links(Top.html[1].links)) :
          stack' = SetTop([Top EXCEPT
                       !.at = "loop",
                       !.data = Some(new_article(Top.url, Top.level, Top.html[1])),
                       !.todo = FirstN(order, FanoutLimit),
                       !.i = 1])
    /\ UNCHANGED <<caller, pc, crawl, exc, response, max_level, visited_urls,
                   article_data, articles, summaries, fetchlog>>
    /\ UNCHANGED <<crawled_before, pureVars, reqVars>>

\* lines 94-95: the next child is parsed at level + 1
LoopCall ==
    /\ pc = "crawling"
    /\ Top.at = "loop"
    /\ Top.i <= Len(Top.todo)
    /\ stack' = Append(stack, Frame(Top.todo[Top.i], Top.level + 1))
    /\ UNCHANGED <<caller, pc, crawl, exc, response, max_level, visited_urls,
                   article_data, articles, summaries, fetchlog>>
    /\ UNCHANGED <<crawled_before, pureVars, reqVars>>

\* line 99: the loop is over
LoopEnd ==
    /\ pc = "crawling"
    /\ Top.at = "loop"
    /\ Top.i > Len(Top.todo)
    /\ Return(Top.data)
    /\ UNCHANGED <<caller, exc, response, max_level, visited_urls, articles,
                   summaries, fetchlog>>
    /\ UNCHANGED <<crawled_before, pureVars, reqVars>>

\* main.py 52-58: the request is over and the next one arrives; the store
\* stays, and so does the last parser until a new one is made
NextRequest ==
    /\ pc = "done"
    /\ caller' = "none"
    /\ pc' = "idle"
    /\ crawl' = "none"
    /\ exc' = "none"
    /\ response' = "none"
    /\ max_level' = DefaultMaxLevel
    /\ article_data' = None
    /\ fetchlog' = [u \in Urls |-> << >>]
    /\ crawled_before' = (crawled_before \/ crawl # "none")
    /\ UNCHANGED <<visited_urls, stack, articles, summaries>>
    /\ UNCHANGED <<pureVars, reqVars>>

Next ==
    \/ ApiExists
    \/ ApiStart
    \/ LibStart
    \/ ApiNoResult
    \/ ApiSave
    \/ EnterPruned
    \/ EnterClaim
    \/ FetchPage
    \/ ParseRaise
    \/ ParseLeaf
    \/ ParseLinks
    \/ LoopCall
    \/ LoopEnd

Spec == Init /\ [][Next]_vars

\* one request after another
NextRuns ==
    \/ Next
    \/ NextRequest

SpecRuns == Init /\ [][NextRuns]_vars

\* a step of the running crawl
CrawlStep ==
    \/ EnterPruned
    \/ EnterClaim
    \/ FetchPage
    \/ ParseRaise
    \/ ParseLeaf
    \/ ParseLinks
    \/ LoopCall
    \/ LoopEnd

\* The event loop resumes a coroutine once the call it awaits is over, and
\* every GET is taken to end with an answer or an exception, so a crawl that
\* can take a step takes one.
SpecFair == Spec /\ WF_vars(CrawlStep)

(***************************************************************************)
(* The footnote strip on its own: a text is stripped, and the result is    *)
(* stripped again.                                                         *)
(***************************************************************************)
Chars == {"[", "]", "1", "2", "a"}

SeqsUpTo(S, n) == UNION {[1..k -> S] : k \in 0..n}

Idle ==
    /\ caller = "none"
    /\ pc = "idle"
    /\ crawl = "none"
    /\ exc = "none"
    /\ response = "none"
    /\ max_level = DefaultMaxLevel
    /\ visited_urls = {}
    /\ stack = << >>
    /\ article_data = None
    /\ articles = {}
    /\ summaries = {}
    /\ fetchlog = [u \in Urls |-> << >>]
    /\ crawled_before = FALSE
    /\ req = [c \in Clients |-> NoRequest]
    /\ mistral = "200"

InitStrip ==
    /\ Idle
    /\ text \in SeqsUpTo(Chars, MaxTextLen)
    /\ stripped = None
    /\ restripped = None
    /\ href = << >>
    /\ wiki_link = None

\* line 69
StripOnce ==
    /\ stripped = None
    /\ stripped' = Some(strip_footnotes(text))
    /\ UNCHANGED <<text, restripped, href, wiki_link>>
    /\ UNCHANGED <<crawlVars, reqVars>>

\* line 69, applied to its own result
StripAgain ==
    /\ stripped # None
    /\ restripped = None
    /\ restripped' = Some(strip_footnotes(stripped[1]))
    /\ UNCHANGED <<text, stripped, href, wiki_link>>
    /\ UNCHANGED <<crawlVars, reqVars>>

NextStrip ==
    \/ StripOnce
    \/ StripAgain

SpecStrip == InitStrip /\ [][NextStrip]_vars

(***************************************************************************)
(* The link filter on its own: one href is filtered and resolved.          *)
(***************************************************************************)
Segments == {"", "wiki", "w", "..", ".", "A"} \cup ColonSegments

Hrefs == UNION {[1..k -> Segments] : k \in 1..MaxHrefLen}

InitFilter ==
    /\ Idle
    /\ text = << >>
    /\ stripped = None
    /\ restripped = None
    /\ href \in Hrefs
    /\ wiki_link = None

\* lines 87-90
FilterLink ==
    /\ wiki_link = None
    /\ wiki_link' = Some(link_filter(href))
    /\ UNCHANGED <<text, stripped, restripped, href>>
    /\ UNCHANGED <<crawlVars, reqVars>>

NextFilter ==
    \/ FilterLink

SpecFilter == InitFilter /\ [][NextFilter]_vars

(***************************************************************************)
(* Concurrent /parse requests for the same seed.  The handler is a         *)
(* coroutine: other requests run while it awaits the store (line 62) and   *)
(* while it awaits the crawl (line 71).  Each request has a parser and a   *)
(* visited set of its own, so its crawl touches nothing the requests       *)
(* share; here the crawl is one step whose result is any of the results    *)
(* the crawl can give.                                                     *)
(***************************************************************************)
MistralAnswers == {"200", "401", "error"}

\* MistralAI.generate_summary: the text on status 200, None on another
\* status and on any exception
generate_summary(answer) == IF answer = "200" THEN Some("summary") ELSE None

LeafTree == new_article(Seed, 0, LeafPage)
ChildTree ==
    [new_article(Seed, 0, OrderPage) EXCEPT
        !.children = <<new_article(Url("A"), 1, LeafPage)>>]
TwoChildTree ==
    [new_article(Seed, 0, OrderPage) EXCEPT
        !.children = <<new_article(Url("B"), 1, LeafPage),
                       new_article(Url("A"), 1, LeafPage)>>]

\* what awaiting parser.parse_article(url) can end with
CrawlResults ==
    {[raised |-> "AttributeError", data |-> None], [raised |-> "none", data |-> None]}
    \cup {[raised |-> "none", data |-> Some(t)] : t \in {LeafTree, ChildTree, TwoChildTree}}

InitRequests ==
    /\ caller = "none"
    /\ pc = "idle"
    /\ crawl = "none"
    /\ exc = "none"
    /\ response = "none"
    /\ max_level = DefaultMaxLevel
    /\ visited_urls = {}
    /\ stack = << >>
    /\ article_data = None
    /\ articles \in InitialStores
    /\ summaries = {}
    /\ fetchlog = [u \in Urls |-> << >>]
    /\ crawled_before = FALSE
    /\ text = << >>
    /\ stripped = None
    /\ restripped = None
    /\ href = << >>
    /\ wiki_link = None
    /\ req = [c \in Clients |-> NoRequest]
    /\ mistral \in MistralAnswers

\* main.py 59-67: the lookup finds the seed, and the request is refused
ReqExists(c) ==
    /\ req[c].pc = "idle"
    /\ get_article_by_url(Seed, articles) # None
    /\ req' = [req EXCEPT ![c].pc = "done",
                          ![c].response = "400 Article already exists in database"]
    /\ UNCHANGED <<articles, summaries, mistral>>
    /\ UNCHANGED <<crawlOnlyVars, pureVars>>

\* main.py 59-71: the lookup finds nothing; a parser is made and its crawl
\* of the seed begins
ReqLaunch(c) ==
    /\ req[c].pc = "idle"
    /\ get_article_by_url(Seed, articles) = None
    /\ req' = [req EXCEPT ![c].pc = "crawling", ![c].launched = TRUE]
    /\ UNCHANGED <<articles, summaries, mistral>>
    /\ UNCHANGED <<crawlOnlyVars, pureVars>>

\* main.py 71: the crawl raises, which ends the request
ReqCrawlRaises(c) ==
    /\ req[c].pc = "crawling"
    /\ \E r \in CrawlResults :
          /\ r.raised # "none"
          /\ req' = [req EXCEPT ![c].pc = "done", ![c].response = "500"]
    /\ UNCHANGED <<articles, summaries, mistral>>
    /\ UNCHANGED <<crawlOnlyVars, pureVars>>

\* main.py 71-76: the crawl returns None
ReqNoResult(c) ==
    /\ req[c].pc = "crawling"
    /\ \E r \in CrawlResults :
          /\ r.raised = "none"
          /\ r.data = None
          /\ req' = [req EXCEPT ![c].pc = "done",
                                ![c].response = "400 Failed to parse article from Wikipedia"]
    /\ UNCHANGED <<articles, summaries, mistral>>
    /\ UNCHANGED <<crawlOnlyVars, pureVars>>

\* main.py 71 and 78-98: the crawl returns a tree and save_article is called
\* on it at once; it raises, which ends the request
ReqSave(c) ==
    /\ req[c].pc = "crawling"
    /\ \E r \in CrawlResults :
          /\ r.raised = "none"
          /\ r.data # None
          /\ LET saved == save_article(r.data[1], articles)
             IN articles' = saved.store
          /\ req' = [req EXCEPT ![c].pc = "done", ![c].article_data = r.data,
                                ![c].response = "500"]
    /\ UNCHANGED <<summaries, mistral>>
    /\ UNCHANGED <<crawlOnlyVars, pureVars>>

NextRequests ==
    \/ \E c \in Clients : ReqExists(c)
    \/ \E c \in Clients : ReqLaunch(c)
    \/ \E c \in Clients : ReqCrawlRaises(c)
    \/ \E c \in Clients : ReqNoResult(c)
    \/ \E c \in Clients : ReqSave(c)

SpecRequests == InitRequests /\ [][NextRequests]_vars

(***************************************************************************)
(* The tree a crawl returned, and what its pages were.                     *)
(***************************************************************************)
RECURSIVE NodesOf(_), NodesOfAll(_)
\* the nodes of a tree, parent first
NodesOf(n) == <<n>> \o NodesOfAll(n.children)
NodesOfAll(ns) ==
    IF ns = << >> THEN << >> ELSE NodesOf(Head(ns)) \o NodesOfAll(Tail(ns))

Returned == crawl = "returned" /\ article_data # None
TreeNodes == NodesOf(article_data[1])
TreeUrls == {TreeNodes[i].url : i \in DOMAIN TreeNodes}
ChildUrls(n) == [i \in DOMAIN n.children |-> n.children[i].url]

Fetched(u) == fetchlog[u] # << >>
FetchFailed(u) == Fetched(u) /\ fetchlog[u][1].kind # "200"
FetchedPage(u) == fetchlog[u][1].page
\* the page came with status 200 but without its title or its content div
Malformed(u) ==
    /\ Fetched(u)
    /\ fetchlog[u][1].kind = "200"
    /\ (FetchedPage(u).title = None \/ ~FetchedPage(u).content_div)
\* the hrefs of a page that are article links: "/wiki/..." without a ':'
ArticleHref(h) ==
    /\ Len(h) >= 3
    /\ SubSeq(h, 1, 2) = <<"", "wiki">>
    /\ \A i \in DOMAIN h : h[i] \notin ColonSegments

(***************************************************************************)
(* C1.  No two nodes of the tree a crawl returns carry the same url,       *)
(* whatever cycles and diamonds the link graph has.                        *)
(***************************************************************************)
C1_NoDuplicateUrls ==
    Returned =>
        \A i, j \in DOMAIN TreeNodes : i # j => TreeNodes[i].url # TreeNodes[j].url

\* a tree over a cycle (A links back to the seed) and a diamond (the seed
\* and A both link C)
C1_Witness ==
    /\ Returned
    /\ fetchlog[Seed] = <<Ok(WidePage)>>
    /\ fetchlog[Url("A")] = <<Ok(MixedPage)>>
    /\ {Seed, Url("A"), Url("C")} \subseteq TreeUrls

(***************************************************************************)
(* C2.  Every node of the returned tree has level <= max_level, and a node *)
(* at level max_level has no children.                                     *)
(***************************************************************************)
C2_DepthBound ==
    Returned =>
        \A i \in DOMAIN TreeNodes :
            /\ TreeNodes[i].level <= max_level
            /\ TreeNodes[i].level = max_level => TreeNodes[i].children = << >>

\* a node at max_level, below the root, whose page has article links
C2_Witness ==
    /\ Returned
    /\ \E i \in DOMAIN TreeNodes :
          /\ TreeNodes[i].level = max_level
          /\ max_level > 0
          /\ \E k \in DOMAIN FetchedPage(TreeNodes[i].url).links :
                ArticleHref(FetchedPage(TreeNodes[i].url).links[k])

(***************************************************************************)
(* C3.  No node of the returned tree has more than FanoutLimit children.   *)
(***************************************************************************)
C3_FanoutBound ==
    Returned =>
        \A i \in DOMAIN TreeNodes : Len(TreeNodes[i].children) <= FanoutLimit

\* a root with FanoutLimit children whose page links four articles
C3_Witness ==
    /\ Returned
    /\ fetchlog[Seed] = <<Ok(WidePage)>>
    /\ Len(article_data[1].children) = FanoutLimit

(***************************************************************************)
(* C4.  The children of a node are the article links of its page in the    *)
(* order of their first occurrence, duplicates collapsed, cut to the first *)
(* FanoutLimit: the urls of a node's children, in order, are drawn from    *)
(* that list in that order (a pruned link leaves a gap, nothing else).     *)
(***************************************************************************)
RECURSIVE FirstOccurrences(_, _)
\* the article links of hs resolved, in document order, each once; seen
\* holds those already listed
FirstOccurrences(hs, seen) ==
    IF hs = << >> THEN << >>
    ELSE IF ArticleHref(Head(hs)) /\ urljoin(base_url, Head(hs)) \notin seen
         THEN <<urljoin(base_url, Head(hs))>>
                  \o FirstOccurrences(Tail(hs), seen \cup {urljoin(base_url, Head(hs))})
    ELSE FirstOccurrences(Tail(hs), seen)

\* a is b with some elements left out
RECURSIVE IsSubsequence(_, _)
IsSubsequence(a, b) ==
    IF a = << >> THEN TRUE
    ELSE IF b = << >> THEN FALSE
    ELSE IF Head(a) = Head(b) THEN IsSubsequence(Tail(a), Tail(b))
    ELSE IsSubsequence(a, Tail(b))

C4_FirstOccurrenceOrder ==
    Returned =>
        \A i \in DOMAIN TreeNodes :
            IsSubsequence(
                ChildUrls(TreeNodes[i]),
                SubSeq(FirstOccurrences(FetchedPage(TreeNodes[i].url).links, {}), 1,
                       Min(FanoutLimit,
                           Len(FirstOccurrences(FetchedPage(TreeNodes[i].url).links, {})))))

(***************************************************************************)
(* C5.  A failed fetch of a URL other than the seed prunes that branch     *)
(* only: the crawl still returns a tree rooted at the seed that holds      *)
(* every URL fetched with status 200 and not the failed one, and raises    *)
(* nothing.                                                                *)
(***************************************************************************)
CrawlEnded == crawl \in {"returned", "raised"}

C5_FetchFailurePrunesBranch ==
    (/\ CrawlEnded
     /\ ~FetchFailed(Seed)
     /\ \E u \in Urls \ {Seed} : FetchFailed(u))
        => /\ Returned
           /\ article_data[1].url = Seed
           /\ \A u \in Urls : FetchFailed(u) => u \notin TreeUrls
           /\ \A u \in Urls : (Fetched(u) /\ ~FetchFailed(u)) => u \in TreeUrls

\* the same with the malformed pages of C6 set aside: this much the code does
C5_WellFormedPages ==
    (/\ CrawlEnded
     /\ ~FetchFailed(Seed)
     /\ \E u \in Urls \ {Seed} : FetchFailed(u)
     /\ ~\E u \in Urls : Malformed(u))
        => /\ Returned
           /\ article_data[1].url = Seed
           /\ \A u \in Urls : FetchFailed(u) => u \notin TreeUrls
           /\ \A u \in Urls : (Fetched(u) /\ ~FetchFailed(u)) => u \in TreeUrls

(***************************************************************************)
(* C6.  A page fetched with status 200 that lacks its title or its content *)
(* div is skipped: the crawl does not fail, and if the page is not the     *)
(* seed's the tree is returned without it.                                 *)
(***************************************************************************)
C6_MalformedPageSkipped ==
    \A u \in Urls :
        (CrawlEnded /\ Malformed(u))
            => /\ crawl = "returned"
               /\ exc # "AttributeError"
               /\ u # Seed => (Returned /\ u \notin TreeUrls)
               /\ u = Seed => article_data = None

(***************************************************************************)
(* C7.  If the fetch of the seed fails, the crawl returns None, not a root *)
(* without children, and /parse answers that the article could not be      *)
(* parsed, storing no article and no summary.                              *)
(***************************************************************************)
C7_SeedFailure ==
    (CrawlEnded /\ FetchFailed(Seed))
        => /\ crawl = "returned"
           /\ article_data = None
           /\ exc = "none"
           /\ (caller = "api" /\ pc = "done")
                  => /\ response = "400 Failed to parse article from Wikipedia"
                     /\ articles = {}
                     /\ summaries = {}

C7_Witness ==
    /\ caller = "api"
    /\ pc = "done"
    /\ fetchlog[Seed] = <<Failed>>
    /\ response = "400 Failed to parse article from Wikipedia"

(***************************************************************************)
(* C8.  In one crawl every URL is fetched at most once: a URL is in        *)
(* visited_urls before its fetch is issued, and a URL that was fetched,    *)
(* whatever the outcome, is never fetched again.                           *)
(***************************************************************************)
C8_FetchedAtMostOnce ==
    /\ \A u \in Urls : Len(fetchlog[u]) <= 1
    /\ \A u \in Urls : Fetched(u) => u \in visited_urls
    /\ \A k \in DOMAIN stack : stack[k].at = "fetch" => stack[k].url \in visited_urls

\* a URL whose fetch failed is reached again through another parent
C8_Witness ==
    /\ stack # << >>
    /\ Top.at = "enter"
    /\ FetchFailed(Top.url)
    /\ \E k \in DOMAIN stack : stack[k].url = Url("B") /\ stack[k].at = "loop"

(***************************************************************************)
(* C9.  The footnote strip is idempotent: stripping a stripped text        *)
(* changes nothing.                                                        *)
(***************************************************************************)
C9_StripIdempotent ==
    restripped # None => restripped = stripped

(***************************************************************************)
(* C10.  The link filter accepts an href exactly when it begins with       *)
(* "/wiki/" and holds no ':', an accepted href becomes the URL             *)
(* base_url + href, and a rejected href becomes no URL.                    *)
(***************************************************************************)
Concat(base, h) == [origin |-> base, path |-> h]

C10_FilterAndConcat ==
    wiki_link # None =>
        /\ wiki_link[1] # None <=> ArticleHref(href)
        /\ wiki_link[1] # None => wiki_link[1][1] = Concat(base_url, href)

(***************************************************************************)
(* C10, amended.  The link filter accepts an href exactly when it begins   *)
(* with "/wiki/" and holds no ':'; an accepted href with no "." or ".."    *)
(* segment becomes the URL base_url + href, any other accepted href a URL  *)
(* of the base's origin whose path has no such segment; a rejected href    *)
(* becomes no URL.                                                         *)
(***************************************************************************)
DotSegments == {".", ".."}
HasDotSegment(h) == \E i \in DOMAIN h : h[i] \in DotSegments

C10_FilterAndResolve ==
    wiki_link # None =>
        /\ wiki_link[1] # None <=> ArticleHref(href)
        /\ (wiki_link[1] # None /\ ~HasDotSegment(href))
               => wiki_link[1][1] = Concat(base_url, href)
        /\ wiki_link[1] # None
               => /\ wiki_link[1][1].origin = base_url
                  /\ ~HasDotSegment(wiki_link[1][1].path)
                  /\ wiki_link[1][1].path[1] = ""

\* "/wiki/A" is accepted and resolved
C10_Witness ==
    /\ href = <<"", "wiki", "A">>
    /\ wiki_link = Some(Some([origin |-> base_url, path |-> <<"", "wiki", "A">>]))

(***************************************************************************)
(* C11.  The visited set belongs to one crawl: every level-0 call of       *)
(* parse_article begins with an empty visited set, and while a crawl runs  *)
(* the set holds only URLs this crawl claimed itself (a call past its      *)
(* entry check, or a fetch of this crawl), so nothing an earlier crawl     *)
(* claimed prunes the seed or a branch of a later one.                     *)
(***************************************************************************)
ClaimedByThisCrawl(u) ==
    \/ Fetched(u)
    \/ \E k \in DOMAIN stack : stack[k].url = u /\ stack[k].at = "fetch"

C11_VisitedSetPerCrawl ==
    /\ (Len(stack) = 1 /\ Top.at = "enter") => visited_urls = {}
    /\ pc = "crawling" => \A u \in visited_urls : ClaimedByThisCrawl(u)

\* a crawl after an earlier one, which claimed the seed, returns a tree of
\* the seed and a branch
C11_Witness ==
    /\ crawled_before
    /\ Returned
    /\ TreeNodes[1].url = Seed
    /\ Len(TreeNodes) >= 2

(***************************************************************************)
(* C12.  When the crawl of a /parse request returned a tree, the request   *)
(* ends with every node of the tree stored in exactly one row, the root's  *)
(* row without a parent, and the row of every other node naming the row of *)
(* its tree parent, which was stored before it (ids grow with insertion).  *)
(***************************************************************************)
RowsOf(u) == {row \in articles : row.url = u}
RowOf(u) == CHOOSE row \in articles : row.url = u

C12_TreePersisted ==
    (caller = "api" /\ pc = "done" /\ Returned) =>
        /\ \A i \in DOMAIN TreeNodes : Cardinality(RowsOf(TreeNodes[i].url)) = 1
        /\ RowOf(TreeNodes[1].url).parent_id = None
        /\ \A i \in DOMAIN TreeNodes : \A j \in DOMAIN TreeNodes[i].children :
              LET parent == RowOf(TreeNodes[i].url)
                  child == RowOf(TreeNodes[i].children[j].url)
              IN /\ child.parent_id = Some(parent.id)
                 /\ parent.id < child.id

(***************************************************************************)
(* C13.  When the summarizer fails (it answers with a status other than    *)
(* 200, or the call raises), a /parse request whose crawl returned a tree  *)
(* still ends with a success response, every article of the tree stored   *)
(* and no summary row.                                                     *)
(***************************************************************************)
C13_SummarizerFailureTolerated ==
    \A c \in Clients :
        (/\ req[c].pc = "done"
         /\ req[c].article_data # None
         /\ generate_summary(mistral) = None)
        => /\ req[c].response = "200"
           /\ LET nodes == NodesOf(req[c].article_data[1])
              IN \A i \in DOMAIN nodes : RowsOf(nodes[i].url) # {}
           /\ summaries = {}

(***************************************************************************)
(* C14.  A /parse request that finds its seed in the article store is      *)
(* refused before any crawl: no crawl is started, no page is fetched, and  *)
(* the store stays as the request found it.                                *)
(***************************************************************************)
C14_StoredSeedRefused ==
    (caller = "api" /\ RowsOf(Seed) # {}) =>
        /\ pc = "done"
        /\ response = "400 Article already exists in database"
        /\ crawl = "none"
        /\ stack = << >>
        /\ \A u \in Urls : ~Fetched(u)
        /\ articles \in InitialStores

\* the refusal
C14_Witness ==
    /\ caller = "api"
    /\ pc = "done"
    /\ RowsOf(Seed) # {}
    /\ response = "400 Article already exists in database"
    /\ crawl = "none"

(***************************************************************************)
(* C15.  Every crawl ends, whatever cycles and self-links the link graph   *)
(* has and whatever max_level is: a running crawl can always take a step,  *)
(* and every step lowers a natural number that depends on the URLs not yet *)
(* claimed and on the calls in progress, not on max_level.  A URL costs    *)
(* its weight once, when it is claimed; it is never expanded again.        *)
(***************************************************************************)
\* the steps one claimed URL can still take: its fetch, its parse, and per
\* expanded link a call, the child's entry check and the child's return
UrlWeight == 3 * FanoutLimit + 4

\* the steps the k-th call in progress can still take by itself
FrameWeight(k) ==
    LET f == stack[k]
    IN CASE f.at = "enter" -> 1
         [] f.at = "fetch" -> 3 * FanoutLimit + 3
         [] f.at = "parse" -> 3 * FanoutLimit + 2
         [] f.at = "loop" /\ k = Len(stack) -> 3 * (Len(f.todo) - f.i + 1) + 1
         [] f.at = "loop" /\ k < Len(stack) -> 3 * (Len(f.todo) - f.i) + 2

RECURSIVE StackWeight(_)
StackWeight(k) == IF k = 0 THEN 0 ELSE FrameWeight(k) + StackWeight(k - 1)

Measure ==
    UrlWeight * Cardinality(Urls \ visited_urls) + StackWeight(Len(stack))

C15_CrawlTerminates ==
    /\ [](crawl = "running" => (Measure \in Nat /\ ENABLED CrawlStep))
    /\ [][CrawlStep => Measure' < Measure]_vars

\* a crawl has ended over a cycle and a self-link: a page other than the
\* seed's links both the seed and itself
C15_Witness ==
    /\ crawl = "returned"
    /\ \E u \in Urls \ {Seed} :
          /\ Fetched(u)
          /\ fetchlog[u][1].kind = "200"
          /\ {Seed, u} \subseteq wiki_links(FetchedPage(u).links)

\* under fair scheduling a running crawl eventually returns or raises
CrawlEventuallyEnds == (crawl = "running") ~> (crawl # "running")

(***************************************************************************)
(* C16.  The links a call goes on to expand are the first FanoutLimit      *)
(* article links of its page, by first occurrence in the document: of a    *)
(* page linking A, B, C and D they are A, B and C, in whatever order.      *)
(***************************************************************************)
Range(q) == {q[i] : i \in DOMAIN q}

C16_FirstLinksAttempted ==
    \A k \in DOMAIN stack :
        stack[k].at = "loop" =>
            Range(stack[k].todo)
                = Range(FirstN(FirstOccurrences(stack[k].html[1].links, {}), FanoutLimit))

\* C16 without "the first": a call expands at most FanoutLimit article
\* links of its page, each once; the child call in progress and the
\* children gathered so far are of those links in their turn, and a link
\* outside them is never called
C16_NoReplacement ==
    \A k \in DOMAIN stack :
        stack[k].at = "loop" =>
            LET f == stack[k]
            IN /\ Len(f.todo) <= FanoutLimit
               /\ Injective(f.todo)
               /\ Range(f.todo) \subseteq wiki_links(f.html[1].links)
               /\ IsSubsequence(ChildUrls(f.data[1]),
                                SubSeq(f.todo, 1, Min(f.i - 1, Len(f.todo))))
               /\ k < Len(stack) => stack[k + 1].url = f.todo[f.i]

\* the seed's page links four articles; one of the three expanded failed
\* to load, the tree has two children, and the fourth link was never tried
C16_FewerChildren ==
    /\ Returned
    /\ fetchlog[Seed] = <<Ok(WidePage)>>
    /\ Len(article_data[1].children) < FanoutLimit
    /\ \E u \in wiki_links(WidePage.links) : u \notin visited_urls
    /\ \E u \in wiki_links(WidePage.links) : FetchFailed(u)

C18_OneCrawlPerSeed ==
    /\ Cardinality({c \in Clients : req[c].launched}) <= 1
    /\ Cardinality(RowsOf(Seed)) <= 1
    /\ \A c, d \in Clients :
          (c # d /\ req[c].launched /\ req[d].pc = "done")
              => req[d].response = "400 Article already exists in database"
====
